---- MODULE Spec2Model ----
(***************************************************************************)
(* Two ESLint rules modelled as state machines driven by the host's        *)
(* traversal events:                                                       *)
(*   - internal-no-invalid-meta (lib/internal-rules/internal-no-invalid-   *)
(*     meta.js): the MetaContractValidator;                                *)
(*   - max-lines (unnamed/part_000): the LineBudgetChecker.                *)
(***************************************************************************)
EXTENDS Integers, Sequences, FiniteSets, TLC

VARIABLES
    metaExportsValue,   \* create(): var metaExportsValue
    ruleIsFixable,      \* create(): var ruleIsFixable
    metaOutcome,        \* what the run has produced: reports made, error raised
    metaPc,             \* "traversing" until Program:exit has run, then "done"
    events,             \* history: the traversal events delivered so far
    option,             \* max-lines: context.options[0]
    sourceLines,        \* max-lines: sourceCode.lines
    tokensAndComments,  \* max-lines: tokens and comments in source order
    max,                \* max-lines create(): resolved max
    skipComments,       \* max-lines create(): resolved skipComments
    skipBlankLines,     \* max-lines create(): resolved skipBlankLines
    commentLines,       \* max-lines Program:exit: var commentLines
    lines,              \* max-lines Program:exit: var lines
    lineReports,        \* max-lines: reports made
    linePc              \* max-lines: "new" -> "created" -> "done"

metaVars == <<metaExportsValue, ruleIsFixable, metaOutcome, metaPc, events>>
lineVars == <<option, sourceLines, tokensAndComments, max, skipComments,
              skipBlankLines, commentLines, lines, lineReports, linePc>>
vars == <<metaVars, lineVars>>

-----------------------------------------------------------------------------
(* Bounds *)

MaxEvents == 2
MaxLines == 3
MaxItems == 3

-----------------------------------------------------------------------------
(* AST nodes of internal-no-invalid-meta *)

Undefined == [type |-> "undefined"]
Null == [type |-> "null"]
Literal == [type |-> "Literal"]
FunctionExpression == [type |-> "FunctionExpression"]

Identifier(name) == [type |-> "Identifier", name |-> name]

Property(name, value) ==
    [type |-> "Property", key |-> Identifier(name), value |-> value]

ObjectExpression(properties) ==
    [type |-> "ObjectExpression", properties |-> properties]

MemberExpression(object, property) ==
    [type |-> "MemberExpression", object |-> object, property |-> property]

\* An object literal with the properties of `names` that are in `present`,
\* in the order of `names`; valueOf[n] is the value of property n.
ObjectWith(names, present, valueOf) ==
    LET kept == SelectSeq(names, LAMBDA n : n \in present)
    IN  ObjectExpression([i \in 1..Len(kept) |-> Property(kept[i], valueOf[kept[i]])])

DocsNames == <<"description", "category", "recommended">>
MetaNames == <<"docs", "schema", "fixable">>

DocsValues ==
    {Literal} \cup
    { ObjectWith(DocsNames, S, [n \in {"description", "category", "recommended"} |-> Literal]) :
        S \in SUBSET {"description", "category", "recommended"} }

MetaValues ==
    {Literal} \cup
    { ObjectWith(MetaNames, S \cup D.names,
                 [n \in {"docs", "schema", "fixable"} |->
                     IF n = "docs" THEN D.value ELSE Literal]) :
        S \in SUBSET {"schema", "fixable"},
        D \in {[names |-> {}, value |-> Literal]} \cup
              {[names |-> {"docs"}, value |-> v] : v \in DocsValues} }

\* The object literals a rule file may export: with or without `meta`, always
\* followed by `create`.
ExportedObjects ==
    {ObjectExpression(<<Property("create", FunctionExpression)>>)} \cup
    { ObjectExpression(<<Property("meta", m), Property("create", FunctionExpression)>>) :
        m \in MetaValues }

\* Right-hand sides of `module.exports = ...`.
ExportValues == ExportedObjects \cup {FunctionExpression, Identifier("rule")}

ModuleExports == MemberExpression(Identifier("module"), Identifier("exports"))

\* Left-hand sides that are not `module.exports`.
OtherLefts ==
    { MemberExpression(Identifier("module"), Identifier("other")),
      MemberExpression(Identifier("exports"), Identifier("exports")),
      MemberExpression([type |-> "ThisExpression"], Identifier("exports")),
      Identifier("exports") }

OtherRights ==
    { ObjectExpression(<<Property("create", FunctionExpression)>>), Literal }

AssignmentExpressions ==
    { [type |-> "AssignmentExpression", left |-> ModuleExports, right |-> r] :
        r \in ExportValues } \cup
    { [type |-> "AssignmentExpression", left |-> l, right |-> r] :
        l \in OtherLefts, r \in OtherRights }

ContextReport == MemberExpression(Identifier("context"), Identifier("report"))

FixDescriptor ==
    ObjectExpression(<<Property("node", Identifier("node")),
                       Property("message", Literal),
                       Property("fix", FunctionExpression)>>)

PlainDescriptor ==
    ObjectExpression(<<Property("node", Identifier("node")),
                       Property("message", Literal)>>)

OtherCallees ==
    { Identifier("report"),
      MemberExpression(Identifier("ctx"), Identifier("report")),
      MemberExpression(Identifier("context"), Identifier("getSourceCode")),
      MemberExpression([type |-> "ThisExpression"], Identifier("report")),
      MemberExpression(Identifier("context"), Literal) }

CallExpressions ==
    { [type |-> "CallExpression", callee |-> ContextReport, arguments |-> a] :
        a \in { <<>>, <<FixDescriptor>>, <<PlainDescriptor>>, <<Identifier("descriptor")>>,
                <<FixDescriptor, Literal>>, <<Identifier("node"), FixDescriptor>> } } \cup
    { [type |-> "CallExpression", callee |-> c, arguments |-> <<FixDescriptor>>] :
        c \in OtherCallees }

-----------------------------------------------------------------------------
(* JavaScript property reads *)

\* node.name: undefined when the node has no such property.
NameOf(node) == IF "name" \in DOMAIN node THEN node.name ELSE "undefined"

\* Completion records: a returned value, or a raised TypeError.
Return(v) == [threw |-> FALSE, value |-> v]
Throw == [threw |-> TRUE]

-----------------------------------------------------------------------------
(* internal-no-invalid-meta: helpers *)

RECURSIVE getPropertyLoop(_, _, _)
getPropertyLoop(property, properties, i) ==
    IF i > Len(properties) THEN Null
    ELSE IF NameOf(properties[i].key) = property THEN properties[i]
    ELSE getPropertyLoop(property, properties, i + 1)

\* node.properties is undefined for every node that is not an object literal
\* (and node itself may be undefined): reading .length then raises TypeError.
getPropertyFromObject(property, node) ==
    IF "properties" \notin DOMAIN node THEN Throw
    ELSE Return(getPropertyLoop(property, node.properties, 1))

getMetaPropertyFromExportsNode(exportsNode) ==
    getPropertyFromObject("meta", exportsNode)

hasMetaDocs(metaPropertyNode) ==
    LET r == getPropertyFromObject("docs", metaPropertyNode.value)
    IN  IF r.threw THEN Throw ELSE Return(r.value # Null)

\* metaDocs && getPropertyFromObject(name, metaDocs.value)
hasMetaDocsProperty(name, metaPropertyNode) ==
    LET metaDocs == getPropertyFromObject("docs", metaPropertyNode.value)
    IN  IF metaDocs.threw THEN Throw
        ELSE IF metaDocs.value = Null THEN Return(FALSE)
        ELSE LET r == getPropertyFromObject(name, metaDocs.value.value)
             IN  IF r.threw THEN Throw ELSE Return(r.value # Null)

hasMetaDocsDescription(metaPropertyNode) ==
    hasMetaDocsProperty("description", metaPropertyNode)

hasMetaDocsCategory(metaPropertyNode) ==
    hasMetaDocsProperty("category", metaPropertyNode)

hasMetaDocsRecommended(metaPropertyNode) ==
    hasMetaDocsProperty("recommended", metaPropertyNode)

hasMetaSchema(metaPropertyNode) ==
    LET r == getPropertyFromObject("schema", metaPropertyNode.value)
    IN  IF r.threw THEN Throw ELSE Return(r.value # Null)

\* Variant: the helper copied from hasMetaSchema without renaming the property.
hasMetaFixable_copiedFromSchema(metaPropertyNode) ==
    LET r == getPropertyFromObject("schema", metaPropertyNode.value)
    IN  IF r.threw THEN Throw ELSE Return(r.value # Null)

hasMetaFixable(metaPropertyNode) ==
    LET r == getPropertyFromObject("fixable", metaPropertyNode.value)
    IN  IF r.threw THEN Throw ELSE Return(r.value # Null)

MsgMeta == "Rule is missing a meta property."
MsgDocs == "Rule is missing a meta.docs property."
MsgDescription == "Rule is missing a meta.docs.description property."
MsgCategory == "Rule is missing a meta.docs.category property."
MsgRecommended == "Rule is missing a meta.docs.recommended property."
MsgSchema == "Rule is missing a meta.schema property."
MsgFixable == "Rule is fixable, but is missing a meta.fixable property."

\* The outcome of a run: the reports made, and whether an error was raised.
Reported(node, message) ==
    [threw |-> FALSE, reports |-> <<[node |-> node, message |-> message]>>]
Raised == [threw |-> TRUE, reports |-> <<>>]
NoReport == [threw |-> FALSE, reports |-> <<>>]

\* One `if (!has...(metaProperty)) { context.report(...); return; }` step
\* followed by the rest of the function.
CheckStep(has, metaProperty, message, rest) ==
    IF has.threw THEN Raised
    ELSE IF ~has.value THEN Reported(metaProperty, message)
    ELSE rest

checkMetaValidity(exportsNode, isFixable) ==
    LET m == getMetaPropertyFromExportsNode(exportsNode)
    IN  IF m.threw THEN Raised
        ELSE IF m.value = Null THEN Reported(exportsNode, MsgMeta)
        ELSE LET metaProperty == m.value IN
             CheckStep(hasMetaDocs(metaProperty), metaProperty, MsgDocs,
             CheckStep(hasMetaDocsDescription(metaProperty), metaProperty, MsgDescription,
             CheckStep(hasMetaDocsCategory(metaProperty), metaProperty, MsgCategory,
             CheckStep(hasMetaDocsRecommended(metaProperty), metaProperty, MsgRecommended,
             CheckStep(hasMetaSchema(metaProperty), metaProperty, MsgSchema,
                 IF ~isFixable THEN NoReport
                 ELSE CheckStep(hasMetaFixable(metaProperty), metaProperty, MsgFixable,
                                NoReport))))))

-----------------------------------------------------------------------------
(* internal-no-invalid-meta: handlers *)

\* Variant: the test of the object's name left out, so `x.exports = ...` counts.
IsModuleExportsAssignment_anyObject(node) ==
    /\ node.left.type = "MemberExpression"
    /\ NameOf(node.left.property) = "exports"

IsModuleExportsAssignment(node) ==
    /\ node.left.type = "MemberExpression"
    /\ NameOf(node.left.object) = "module"
    /\ NameOf(node.left.property) = "exports"

\* Variant: only the first argument looked at, whatever their number.
IsFixingReportCall_firstArgument(node) ==
    /\ node.callee.type = "MemberExpression"
    /\ node.callee.object.type = "Identifier"
    /\ NameOf(node.callee.object) = "context"
    /\ node.callee.property.type = "Identifier"
    /\ NameOf(node.callee.property) = "report"
    /\ Len(node.arguments) >= 1
    /\ node.arguments[1].type = "ObjectExpression"
    /\ getPropertyFromObject("fix", node.arguments[1]).value # Null

IsFixingReportCall(node) ==
    /\ node.callee.type = "MemberExpression"
    /\ node.callee.object.type = "Identifier"
    /\ NameOf(node.callee.object) = "context"
    /\ node.callee.property.type = "Identifier"
    /\ NameOf(node.callee.property) = "report"
    /\ Len(node.arguments) = 1
    /\ node.arguments[1].type = "ObjectExpression"
    /\ getPropertyFromObject("fix", node.arguments[1]).value # Null

AssignmentExpression(node) ==
    /\ metaPc = "traversing"
    /\ Len(events) < MaxEvents
    /\ metaExportsValue' =
          IF IsModuleExportsAssignment(node) THEN node.right ELSE metaExportsValue
    /\ events' = Append(events, node)
    /\ UNCHANGED <<ruleIsFixable, metaOutcome, metaPc>>

CallExpression(node) ==
    /\ metaPc = "traversing"
    /\ Len(events) < MaxEvents
    /\ ruleIsFixable' = IF IsFixingReportCall(node) THEN TRUE ELSE ruleIsFixable
    /\ events' = Append(events, node)
    /\ UNCHANGED <<metaExportsValue, metaOutcome, metaPc>>

ProgramExit ==
    /\ metaPc = "traversing"
    /\ metaOutcome' = checkMetaValidity(metaExportsValue, ruleIsFixable)
    /\ metaPc' = "done"
    /\ UNCHANGED <<metaExportsValue, ruleIsFixable, events>>

\* create(): the state of a fresh run.
MetaCreate ==
    /\ metaExportsValue = Undefined
    /\ ruleIsFixable = FALSE
    /\ metaOutcome = NoReport
    /\ metaPc = "traversing"
    /\ events = <<>>

LineIdle ==
    /\ option = Undefined
    /\ sourceLines = <<>>
    /\ tokensAndComments = <<>>
    /\ max = 0
    /\ skipComments = Undefined
    /\ skipBlankLines = Undefined
    /\ commentLines = <<>>
    /\ lines = <<>>
    /\ lineReports = <<>>
    /\ linePc = "idle"

InitMeta == MetaCreate /\ LineIdle

NextMeta ==
    \/ \E node \in AssignmentExpressions : AssignmentExpression(node) /\ UNCHANGED lineVars
    \/ \E node \in CallExpressions : CallExpression(node) /\ UNCHANGED lineVars
    \/ ProgramExit /\ UNCHANGED lineVars

SpecMeta == InitMeta /\ [][NextMeta]_vars

-----------------------------------------------------------------------------
(* max-lines: JavaScript values and the inputs of a run *)

Boolean(b) == [type |-> "boolean", value |-> b]
Number(n) == [type |-> "number", value |-> n]
Object(props) == [type |-> "object", props |-> props]

\* typeof v
TypeOf(v) == v.type

\* ToBoolean(v)
Truthy(v) ==
    CASE v.type = "undefined" -> FALSE
      [] v.type = "boolean" -> v.value
      [] v.type = "number" -> v.value # 0
      [] v.type = "object" -> TRUE

\* a && b
And(a, b) == IF Truthy(a) THEN b ELSE a

\* v.name: undefined unless v is an object having the property.
Get(v, name) ==
    IF v.type = "object" /\ name \in DOMAIN v.props THEN v.props[name] ELSE Undefined

\* v.hasOwnProperty(name), for v an object
HasOwnProperty(v, name) == name \in DOMAIN v.props

OptionNames == {"max", "skipComments", "skipBlankLines"}

\* The object configurations the schema admits.
ObjectOptions ==
    UNION { { Object(f) :
                f \in { g \in [S -> {Boolean(TRUE), Boolean(FALSE)} \cup
                                    {Number(n) : n \in 0..MaxLines}] :
                          \A k \in S : (k = "max") <=> (g[k].type = "number") } } :
            S \in SUBSET OptionNames }

\* context.options[0]: absent, a bare integer >= 0, or an object.
Options == {Undefined} \cup {Number(n) : n \in 0..MaxLines} \cup ObjectOptions

\* The configurations used to exercise the counting: max and both flags given.
CountingOptions == {o \in ObjectOptions : DOMAIN o.props = OptionNames}

\* A line's text is the sequence of its UTF-16 code units.
\* The code units String.prototype.trim strips (WhiteSpace and
\* LineTerminator): U+0009-000D, U+0020, U+00A0, U+1680, U+2000-200A,
\* U+2028, U+2029, U+202F, U+205F, U+3000, U+FEFF.
Whitespace ==
    (9..13) \cup {32, 160, 5760} \cup (8192..8202) \cup
    {8232, 8233, 8239, 8287, 12288, 65279}

\* Blank lines: empty, or space, tab, form feed, no-break space and BOM.
BlankTexts == { <<>>, <<32, 9, 12, 160, 65279>> }

\* A line with content: " x\t".
CodeTexts == { <<32, 120, 9>> }

\* Text that only the inside of a block comment or template literal can
\* hold: a lone zero-width space (U+200B), which trim does not strip.
InnerTexts == { <<8203>> }

Loc(s, e) == [start |-> [line |-> s], end |-> [line |-> e]]

\* Tokens and comments that fit in n lines.  A line comment stays on one
\* line; a block comment and a token (a template literal) may span several.
ItemsIn(n) ==
    { [type |-> t, loc |-> Loc(s, e)] :
        t \in {"Block", "Template"}, s \in 1..n, e \in 1..n } \cup
    { [type |-> "Line", loc |-> Loc(s, s)] : s \in 1..n }

\* Source order: spans are well formed and disjoint, each item ends no later
\* than the next one starts, and nothing follows a line comment on its line.
InSourceOrder(items) ==
    /\ \A i \in DOMAIN items : items[i].loc.start.line <= items[i].loc.end.line
    /\ \A i \in DOMAIN items : i < Len(items) =>
          /\ items[i].loc.end.line <= items[i + 1].loc.start.line
          /\ items[i].type = "Line" =>
                items[i].loc.end.line < items[i + 1].loc.start.line

Layouts(n) ==
    UNION { {items \in [1..k -> ItemsIn(n)] : InSourceOrder(items)} : k \in 0..MaxItems }

\* The texts line ln may have under a layout: not blank where an item starts
\* or ends, blank where no item reaches, anything inside a multi-line item.
TextsAt(items, ln) ==
    IF \E i \in DOMAIN items : ln \in {items[i].loc.start.line, items[i].loc.end.line}
    THEN CodeTexts
    ELSE IF \E i \in DOMAIN items :
                items[i].loc.start.line < ln /\ ln < items[i].loc.end.line
    THEN CodeTexts \cup BlankTexts \cup InnerTexts
    ELSE BlankTexts

-----------------------------------------------------------------------------
(* max-lines: collaborators (SourceCode, ast-utils, lodash, String) *)

\* A token or comment is referred to by its position in tokensAndComments;
\* 0 is null.
getTokenOrCommentBefore(token) == IF token > 1 THEN token - 1 ELSE 0

getTokenOrCommentAfter(token) ==
    IF token < Len(tokensAndComments) THEN token + 1 ELSE 0

\* astUtils.isTokenOnSameLine(left, right)
isTokenOnSameLine(left, right) ==
    tokensAndComments[left].loc.end.line = tokensAndComments[right].loc.start.line

\* sourceCode.getAllComments(): the comments, in source order
getAllComments ==
    SelectSeq([i \in DOMAIN tokensAndComments |-> i],
              LAMBDA i : tokensAndComments[i].type \in {"Block", "Line"})

\* lodash.range(start, end): start, start + 1, ..., end - 1
range(start, end) ==
    IF start < end THEN [i \in 1..(end - start) |-> start + i - 1] ELSE <<>>

RECURSIVE flatten(_)
flatten(arrays) ==
    IF arrays = <<>> THEN <<>> ELSE Head(arrays) \o flatten(Tail(arrays))

includes(array, value) == \E i \in DOMAIN array : array[i] = value

RECURSIVE trimStart(_)
trimStart(text) ==
    IF text # <<>> /\ Head(text) \in Whitespace THEN trimStart(Tail(text)) ELSE text

RECURSIVE trimEnd(_)
trimEnd(text) ==
    IF text # <<>> /\ text[Len(text)] \in Whitespace
    THEN trimEnd(SubSeq(text, 1, Len(text) - 1))
    ELSE text

\* String.prototype.trim
trim(text) == trimEnd(trimStart(text))

-----------------------------------------------------------------------------
(* max-lines: the rule *)

DefaultMax == 300

\* Variant: a bare number taken only when truthy (max = option || 300).
resolveMax_truthyNumber(opt) ==
    IF TypeOf(opt) = "number" /\ Truthy(opt) THEN opt.value
    ELSE IF /\ TypeOf(opt) = "object"
            /\ HasOwnProperty(opt, "max")
            /\ TypeOf(Get(opt, "max")) = "number"
    THEN Get(opt, "max").value
    ELSE DefaultMax

resolveMax(opt) ==
    LET fromObject ==
            IF /\ TypeOf(opt) = "object"
               /\ HasOwnProperty(opt, "max")
               /\ TypeOf(Get(opt, "max")) = "number"
            THEN Get(opt, "max").value
            ELSE DefaultMax
    IN  IF TypeOf(opt) = "number" THEN opt.value ELSE fromObject

resolveSkipComments(opt) == And(opt, Get(opt, "skipComments"))

resolveSkipBlankLines(opt) == And(opt, Get(opt, "skipBlankLines"))

isCommentNodeType(token) ==
    token # 0 /\ tokensAndComments[token].type \in {"Block", "Line"}

\* Variant: only the immediate neighbour looked at; a comment there counts
\* as no token.
walkBefore_immediateOnly(token) ==
    LET t == getTokenOrCommentBefore(token)
    IN  IF isCommentNodeType(t) THEN 0 ELSE t

\* do { token = getTokenOrCommentBefore(token); } while (isCommentNodeType(token));
RECURSIVE walkBefore(_)
walkBefore(token) ==
    LET t == getTokenOrCommentBefore(token)
    IN  IF isCommentNodeType(t) THEN walkBefore(t) ELSE t

RECURSIVE walkAfter(_)
walkAfter(token) ==
    LET t == getTokenOrCommentAfter(token)
    IN  IF isCommentNodeType(t) THEN walkAfter(t) ELSE t

\* Variant: lodash.range(start, end), whose end is exclusive.
getLinesWithoutCode_exclusiveEnd(comment) ==
    LET before == walkBefore(comment)
        after == walkAfter(comment)
        start == tokensAndComments[comment].loc.start.line +
                 (IF before # 0 /\ isTokenOnSameLine(before, comment) THEN 1 ELSE 0)
        end == tokensAndComments[comment].loc.end.line -
               (IF after # 0 /\ isTokenOnSameLine(comment, after) THEN 1 ELSE 0)
    IN  IF start <= end THEN range(start, end) ELSE <<>>

getLinesWithoutCode(comment) ==
    LET before == walkBefore(comment)
        after == walkAfter(comment)
        start == tokensAndComments[comment].loc.start.line +
                 (IF before # 0 /\ isTokenOnSameLine(before, comment) THEN 1 ELSE 0)
        end == tokensAndComments[comment].loc.end.line -
               (IF after # 0 /\ isTokenOnSameLine(comment, after) THEN 1 ELSE 0)
    IN  IF start <= end THEN range(start, end + 1) ELSE <<>>

\* sourceCode.lines.map(...)
numberedLines ==
    [i \in DOMAIN sourceLines |-> [lineNumber |-> i, text |-> sourceLines[i]]]

\* Variant: the text compared without trimming.
withoutBlankLines_untrimmed(ls) ==
    IF Truthy(skipBlankLines)
    THEN SelectSeq(ls, LAMBDA l : l.text # <<>>)
    ELSE ls

withoutBlankLines(ls) ==
    IF Truthy(skipBlankLines)
    THEN SelectSeq(ls, LAMBDA l : trim(l.text) # <<>>)
    ELSE ls

computeCommentLines ==
    LET comments == getAllComments
    IN  flatten([i \in DOMAIN comments |-> getLinesWithoutCode(comments[i])])

withoutCommentLines(ls) ==
    IF Truthy(skipComments)
    THEN SelectSeq(ls, LAMBDA l : ~includes(computeCommentLines, l.lineNumber))
    ELSE ls

\* "File must be at most " + max + " lines long"
LineMessage(m) == "File must be at most " \o ToString(m) \o " lines long"

\* Variant: lines.length >= max
exceedsMax_orEquals(length, m) == length >= m

\* lines.length > max
exceedsMax(length, m) == length > m

\* create(context), with context.options[0] = opt
LineCreate(opt) ==
    /\ linePc = "new"
    /\ option' = opt
    /\ max' = resolveMax(opt)
    /\ skipComments' = resolveSkipComments(opt)
    /\ skipBlankLines' = resolveSkipBlankLines(opt)
    /\ linePc' = "created"
    /\ UNCHANGED <<sourceLines, tokensAndComments, commentLines, lines, lineReports>>

LineProgramExit ==
    /\ linePc = "created"
    /\ commentLines' = IF Truthy(skipComments) THEN computeCommentLines ELSE <<>>
    /\ lines' = withoutCommentLines(withoutBlankLines(numberedLines))
    /\ lineReports' =
          IF exceedsMax(Len(lines'), max)
          THEN <<[loc |-> [line |-> 1, column |-> 0], message |-> LineMessage(max)]>>
          ELSE <<>>
    /\ linePc' = "done"
    /\ UNCHANGED <<option, sourceLines, tokensAndComments, max, skipComments,
                   skipBlankLines>>

MetaIdle ==
    /\ metaExportsValue = Undefined
    /\ ruleIsFixable = FALSE
    /\ metaOutcome = NoReport
    /\ metaPc = "idle"
    /\ events = <<>>

LineFresh ==
    /\ option = Undefined
    /\ max = DefaultMax
    /\ skipComments = Undefined
    /\ skipBlankLines = Undefined
    /\ commentLines = <<>>
    /\ lines = <<>>
    /\ lineReports = <<>>
    /\ linePc = "new"

\* A source unit: its lines, and its tokens and comments.
IsSourceUnit(n) ==
    /\ tokensAndComments \in Layouts(n)
    /\ sourceLines \in [1..n -> CodeTexts \cup BlankTexts \cup InnerTexts]
    /\ \A ln \in 1..n : sourceLines[ln] \in TextsAt(tokensAndComments, ln)

InitLines ==
    /\ MetaIdle
    /\ LineFresh
    /\ \E n \in 1..MaxLines : IsSourceUnit(n)

NextLines ==
    \/ \E opt \in CountingOptions : LineCreate(opt) /\ UNCHANGED metaVars
    \/ LineProgramExit /\ UNCHANGED metaVars

SpecLines == InitLines /\ [][NextLines]_vars

\* Configuration resolution over every admitted configuration, on a unit of
\* MaxLines lines of code.
InitConfig ==
    /\ MetaIdle
    /\ LineFresh
    /\ \E n \in 1..MaxLines :
          /\ tokensAndComments = [i \in 1..n |-> [type |-> "Template", loc |-> Loc(i, i)]]
          /\ sourceLines \in [1..n -> CodeTexts]

NextConfig ==
    \/ \E opt \in Options : LineCreate(opt) /\ UNCHANGED metaVars
    \/ LineProgramExit /\ UNCHANGED metaVars

SpecConfig == InitConfig /\ [][NextConfig]_vars

-----------------------------------------------------------------------------
(* What the properties below say about a tree, stated without the code *)

MaxOf(S) == CHOOSE x \in S : \A y \in S : y <= x
MinOf(S) == CHOOSE x \in S : \A y \in S : x <= y

IsObjectLiteral(node) == node.type = "ObjectExpression"

\* The Property nodes of an object literal; none for any other node.
PropertiesOf(node) ==
    IF IsObjectLiteral(node)
    THEN {node.properties[i] : i \in DOMAIN node.properties}
    ELSE {}

Has(node, name) == \E p \in PropertiesOf(node) : p.key.name = name

PropertyNamed(node, name) ==
    IF Has(node, name)
    THEN CHOOSE p \in PropertiesOf(node) : p.key.name = name
    ELSE Null

ValueNamed(node, name) ==
    IF Has(node, name) THEN PropertyNamed(node, name).value ELSE Undefined

\* Checks 1..7 of the validation order, as the specification words them.
CheckPasses(k, exported, fixable) ==
    LET meta == ValueNamed(exported, "meta")
        docs == ValueNamed(meta, "docs")
    IN  CASE k = 1 -> Has(exported, "meta")
          [] k = 2 -> Has(meta, "docs")
          [] k = 3 -> Has(docs, "description")
          [] k = 4 -> Has(docs, "category")
          [] k = 5 -> Has(docs, "recommended")
          [] k = 6 -> Has(meta, "schema")
          [] k = 7 -> fixable => Has(meta, "fixable")

CheckMessage(k) ==
    CASE k = 1 -> MsgMeta
      [] k = 2 -> MsgDocs
      [] k = 3 -> MsgDescription
      [] k = 4 -> MsgCategory
      [] k = 5 -> MsgRecommended
      [] k = 6 -> MsgSchema
      [] k = 7 -> MsgFixable

FailingChecks(exported, fixable) ==
    {k \in 1..7 : ~CheckPasses(k, exported, fixable)}

\* The reports the validation order prescribes for an exported object literal.
PrescribedReports(exported, fixable) ==
    LET failing == FailingChecks(exported, fixable)
    IN  IF failing = {} THEN <<>>
        ELSE LET k == MinOf(failing)
             IN  <<[node |-> IF k = 1 THEN exported ELSE PropertyNamed(exported, "meta"),
                    message |-> CheckMessage(k)]>>

IsExportsAssignmentEvent(e) ==
    e.type = "AssignmentExpression" /\ e.left = ModuleExports

IsQualifyingCallEvent(e) ==
    /\ e.type = "CallExpression"
    /\ e.callee = ContextReport
    /\ Len(e.arguments) = 1
    /\ Has(e.arguments[1], "fix")

ExportsAssignments == {i \in DOMAIN events : IsExportsAssignmentEvent(events[i])}
QualifyingCalls == {i \in DOMAIN events : IsQualifyingCallEvent(events[i])}

\* The nesting the checks assume: meta and meta.docs, where present, are
\* object literals.
WellNested(exported) ==
    /\ IsObjectLiteral(exported)
    /\ Has(exported, "meta") => IsObjectLiteral(ValueNamed(exported, "meta"))
    /\ Has(ValueNamed(exported, "meta"), "docs") =>
           IsObjectLiteral(ValueNamed(ValueNamed(exported, "meta"), "docs"))

-----------------------------------------------------------------------------
(* What the properties below say about a source unit, stated without the code *)

IsComment(i) == tokensAndComments[i].type \in {"Block", "Line"}

Comments == {i \in DOMAIN tokensAndComments : IsComment(i)}
Tokens == {i \in DOMAIN tokensAndComments : ~IsComment(i)}

TokensBefore(c) == {j \in Tokens : j < c}
TokensAfter(c) == {j \in Tokens : j > c}

\* Line s of comment c is shared with code: the nearest preceding token ends on it.
StartShared(c) ==
    /\ TokensBefore(c) # {}
    /\ tokensAndComments[MaxOf(TokensBefore(c))].loc.end.line =
          tokensAndComments[c].loc.start.line

\* Line e of comment c is shared with code: the nearest following token starts on it.
EndShared(c) ==
    /\ TokensAfter(c) # {}
    /\ tokensAndComments[MinOf(TokensAfter(c))].loc.start.line =
          tokensAndComments[c].loc.end.line

\* The inclusive range comment c excludes (empty when its start passes its end).
CodeFreeRange(c) ==
    (tokensAndComments[c].loc.start.line + (IF StartShared(c) THEN 1 ELSE 0)) ..
    (tokensAndComments[c].loc.end.line - (IF EndShared(c) THEN 1 ELSE 0))

CodeFreeLines == UNION {CodeFreeRange(c) : c \in Comments}

\* The WhiteSpace and LineTerminator code units of ECMAScript.
WhiteSpaceOrLineTerminator ==
    {9, 10, 11, 12, 13, 32, 160, 5760, 8192, 8193, 8194, 8195, 8196, 8197, 8198,
     8199, 8200, 8201, 8202, 8232, 8233, 8239, 8287, 12288, 65279}

IsBlankLine(ln) ==
    \A i \in DOMAIN sourceLines[ln] : sourceLines[ln][i] \in WhiteSpaceOrLineTerminator

\* The line numbers a run with the resolved options must count.
LinesToCount ==
    {ln \in DOMAIN sourceLines :
        /\ ~(Truthy(skipBlankLines) /\ IsBlankLine(ln))
        /\ ~(Truthy(skipComments) /\ ln \in CodeFreeLines)}

ElementsOf(seq) == {seq[i] : i \in DOMAIN seq}
CountedLineNumbers == {lines[i].lineNumber : i \in DOMAIN lines}

\* Lines on which a token starts or ends.
CodeLines ==
    UNION {{tokensAndComments[t].loc.start.line, tokensAndComments[t].loc.end.line} :
             t \in Tokens}

-----------------------------------------------------------------------------
(* Properties of max-lines *)

\* C4: a run reports exactly one violation if the number of lines left after
\* the configured exclusions is greater than max and none otherwise; the
\* violation is at line 1, column 0, with the message
\* "File must be at most <max> lines long" for the resolved max.
C4_OneViolationIffOverBudget ==
    /\ linePc # "done" => lineReports = <<>>
    /\ linePc = "done" =>
          lineReports =
             IF Cardinality(LinesToCount) > Get(option, "max").value
             THEN <<[loc |-> [line |-> 1, column |-> 0],
                     message |-> "File must be at most "
                                 \o ToString(Get(option, "max").value)
                                 \o " lines long"]>>
             ELSE <<>>

\* C4 witness: nothing excluded, one line more than max, and the violation
\* is reported.
C4_Witness ==
    /\ linePc = "done"
    /\ ~Truthy(skipComments) /\ ~Truthy(skipBlankLines)
    /\ Len(sourceLines) = max + 1
    /\ Len(lineReports) = 1

\* C5: with skipComments, each comment excludes exactly the inclusive range
\* from its start line (plus one when the nearest preceding non-comment
\* token ends on it) to its end line (minus one when the nearest following
\* non-comment token starts on it), and the lines removed are exactly the
\* union of these ranges over all comments.
C5_CommentLinesAreCodeFreeRanges ==
    (linePc = "done" /\ Truthy(skipComments)) =>
        /\ ElementsOf(commentLines) = CodeFreeLines
        /\ \A c \in DOMAIN getAllComments :
              ElementsOf(getLinesWithoutCode(getAllComments[c])) =
                 CodeFreeRange(getAllComments[c])
        /\ ~Truthy(skipBlankLines) =>
              CountedLineNumbers = (DOMAIN sourceLines) \ CodeFreeLines

\* C5 witness: a comment on lines 1-3 sharing line 1 and line 3 with code
\* removes exactly line 2.
C5_Witness ==
    /\ linePc = "done"
    /\ Truthy(skipComments) /\ ~Truthy(skipBlankLines)
    /\ Len(tokensAndComments) = 3
    /\ tokensAndComments[1].type = "Template" /\ tokensAndComments[1].loc.end.line = 1
    /\ tokensAndComments[2] = [type |-> "Block", loc |-> Loc(1, 3)]
    /\ tokensAndComments[3].type = "Template" /\ tokensAndComments[3].loc.start.line = 3
    /\ commentLines = <<2>>
    /\ CountedLineNumbers = {1, 3}

\* C6: with skipBlankLines, no line whose trimmed text is empty is counted,
\* whatever skipComments is, and the counted total is the number of lines
\* that are neither blank nor in the comment exclusion set.
C6_BlankLinesNeverCounted ==
    (linePc = "done" /\ Truthy(skipBlankLines)) =>
        /\ \A i \in DOMAIN lines : ~IsBlankLine(lines[i].lineNumber)
        /\ Len(lines) =
              Cardinality({ln \in DOMAIN sourceLines :
                              /\ ~IsBlankLine(ln)
                              /\ ~(Truthy(skipComments) /\ ln \in CodeFreeLines)})
        /\ Cardinality(CountedLineNumbers) = Len(lines)

\* C6 witness: both options on, and a line of space, tab, form feed,
\* no-break space and BOM inside a comment-only range is removed once: the
\* count is the one remaining line of code.
C6_Witness ==
    /\ linePc = "done"
    /\ Truthy(skipBlankLines) /\ Truthy(skipComments)
    /\ \E b \in DOMAIN sourceLines :
          /\ sourceLines[b] = <<32, 9, 12, 160, 65279>>
          /\ b \in ElementsOf(commentLines)
          /\ b \notin CountedLineNumbers
    /\ Len(sourceLines) = 3
    /\ Len(lines) = 1

\* C7: a bare integer n resolves to max = n with both options disabled; an
\* object resolves to its max (300 when absent) with each option disabled
\* unless its field is true; no configuration resolves to max = 300 with
\* both options disabled.
C7_ConfigurationResolution ==
    linePc # "new" =>
        /\ option.type = "number" =>
              max = option.value /\ ~Truthy(skipComments) /\ ~Truthy(skipBlankLines)
        /\ option.type = "undefined" =>
              max = 300 /\ ~Truthy(skipComments) /\ ~Truthy(skipBlankLines)
        /\ option.type = "object" =>
              /\ max = IF "max" \in DOMAIN option.props
                       THEN option.props["max"].value ELSE 300
              /\ Truthy(skipComments) <=>
                    /\ "skipComments" \in DOMAIN option.props
                    /\ option.props["skipComments"] = Boolean(TRUE)
              /\ Truthy(skipBlankLines) <=>
                    /\ "skipBlankLines" \in DOMAIN option.props
                    /\ option.props["skipBlankLines"] = Boolean(TRUE)

\* C7 witness: the bare integer 0 resolved to max = 0, and the run reported.
C7_Witness ==
    /\ linePc = "done"
    /\ option = Number(0)
    /\ max = 0
    /\ Len(lineReports) = 1

\* C10: with skipComments, no line on which a non-comment token starts or
\* ends is in the comment exclusion set, so skipComments alone never removes
\* a line that carries code.
C10_CodeLinesNeverExcluded ==
    (linePc = "done" /\ Truthy(skipComments)) =>
        /\ CodeLines \cap ElementsOf(commentLines) = {}
        /\ ~Truthy(skipBlankLines) => CodeLines \subseteq CountedLineNumbers

\* C10 witness: a token and two comments chained on line 1, the second
\* comment running on to line 2; line 2 is excluded and line 1 is kept.
C10_Witness ==
    /\ linePc = "done"
    /\ Truthy(skipComments) /\ ~Truthy(skipBlankLines)
    /\ Len(tokensAndComments) = 3
    /\ tokensAndComments[1] = [type |-> "Template", loc |-> Loc(1, 1)]
    /\ tokensAndComments[2] = [type |-> "Block", loc |-> Loc(1, 1)]
    /\ tokensAndComments[3] = [type |-> "Block", loc |-> Loc(1, 2)]
    /\ commentLines = <<2>>
    /\ 1 \in CountedLineNumbers

-----------------------------------------------------------------------------
(* Properties of internal-no-invalid-meta *)

\* C1: at Program:exit, for every exported object literal, the run reports
\* exactly the violation of the first failing check in the order meta, docs,
\* description, category, recommended, schema, fixable (none if all pass),
\* at the exported node for check 1 and at the meta property otherwise, and
\* nothing is reported before Program:exit.
C1_FirstFailingCheckReported ==
    /\ metaPc = "traversing" => metaOutcome.reports = <<>>
    /\ (metaPc = "done" /\ IsObjectLiteral(metaExportsValue)) =>
          metaOutcome.reports = PrescribedReports(metaExportsValue, ruleIsFixable)

\* C1 restricted to exported objects whose meta and meta.docs values are
\* object literals: there the order holds and no error is raised.
C1_OrderOnWellNested ==
    /\ metaPc = "traversing" => metaOutcome = NoReport
    /\ (metaPc = "done" /\ WellNested(metaExportsValue)) =>
          /\ ~metaOutcome.threw
          /\ metaOutcome.reports = PrescribedReports(metaExportsValue, ruleIsFixable)

\* C2: when no assignment of an object literal to module.exports was
\* observed, Program:exit raises no error and reports nothing.
C2_NoExportNoErrorNoReport ==
    (/\ metaPc = "done"
     /\ \A i \in ExportsAssignments : ~IsObjectLiteral(events[i].right)) =>
        (~metaOutcome.threw /\ metaOutcome.reports = <<>>)

\* C3: when the validated object passes checks 1-6, the run reports exactly
\* the meta.fixable violation iff meta lacks `fixable` and a qualifying
\* fix-bearing context.report call was observed anywhere in the traversal;
\* otherwise it reports nothing.
C3_FixableReportedIffFixCallSeen ==
    (/\ metaPc = "done"
     /\ \A k \in 1..6 : CheckPasses(k, metaExportsValue, FALSE)) =>
        /\ ~metaOutcome.threw
        /\ metaOutcome.reports =
              IF ~Has(ValueNamed(metaExportsValue, "meta"), "fixable") /\ QualifyingCalls # {}
              THEN <<[node |-> PropertyNamed(metaExportsValue, "meta"),
                      message |-> MsgFixable]>>
              ELSE <<>>

\* C3 witness: the fixable violation was reported for a call seen after the
\* module.exports assignment.
C3_Witness ==
    /\ metaPc = "done"
    /\ Len(metaOutcome.reports) = 1
    /\ metaOutcome.reports[1].message = MsgFixable
    /\ Len(events) = 2
    /\ IsExportsAssignmentEvent(events[1])
    /\ IsQualifyingCallEvent(events[2])

\* C8: metaExportsValue is the right-hand side of the most recent assignment
\* to module.exports (undefined before the first); other assignments and
\* calls leave it alone, and Program:exit validates that value only.
C8_LastExportsAssignmentWins ==
    /\ metaExportsValue =
          IF ExportsAssignments = {} THEN Undefined
          ELSE events[MaxOf(ExportsAssignments)].right
    /\ (metaPc = "done" /\ WellNested(metaExportsValue)) =>
          metaOutcome.reports = PrescribedReports(metaExportsValue, ruleIsFixable)

\* C8 witness: two assignments to module.exports with different right-hand
\* sides were seen, and the second one is held.
C8_Witness ==
    /\ Len(events) = 2
    /\ ExportsAssignments = {1, 2}
    /\ events[1].right # events[2].right
    /\ metaExportsValue = events[2].right
    /\ metaPc = "done"
    /\ metaOutcome.reports # <<>>

\* C9: ruleIsFixable is false at the start, is true exactly when a call of
\* context.report with a single object-literal argument having `fix` has
\* been seen, and once true is never reset.
C9_FixableSetOnlyByFixCallAndKept ==
    /\ ruleIsFixable = FALSE
    /\ [](ruleIsFixable <=> QualifyingCalls # {})
    /\ [][ruleIsFixable => ruleIsFixable']_vars

\* C9 witness: the flag was set by the first event and survived a later
\* assignment and the end of the traversal.
C9_Witness ==
    /\ metaPc = "done"
    /\ ruleIsFixable
    /\ Len(events) = 2
    /\ IsQualifyingCallEvent(events[1])
    /\ events[2].type = "AssignmentExpression"

====
